---- MODULE Spec2Model ----
(***************************************************************************)
(* A model of djmoney.money.Money (src/djmoney/money.py): the adapter that *)
(* extends moneyed.Money with decimal_places / format_options metadata,    *)
(* routes arithmetic either to the base numeric operators or to the        *)
(* ORM's reflected operators, and renders itself through moneyed.l10n.     *)
(*                                                                         *)
(* Amounts are exact rationals [n, d] (d > 0, lowest terms): every value   *)
(* the model builds has a denominator of the form 2^a * 5^b, so it is a    *)
(* Decimal the base library represents exactly.                            *)
(* An optional integer (decimal_places, ndigits) is a set: {} is None and  *)
(* {k} is the integer k.                                                   *)
(***************************************************************************)
EXTENDS Integers, Sequences, FiniteSets, TLC

VARIABLES
    settings,    \* django.conf.settings: AUTO_CONVERT_MONEY, rates, language, LANGUAGE_CODE, MONEY_FORMAT
    inst,        \* the Money instance the next operator is called on
    last,        \* the last operator call: receiver, operand, outcome
    steps,       \* number of operator calls made so far
    chain,       \* history: decimal_places of the operands of the running +/- chain
    callerDict,  \* the dict object the caller passed as format_options (the caller still owns it)
    snap,        \* history: callerDict's contents when inst was constructed
    rendered     \* the last __str__ call: the keyword arguments handed to format_money, and its inputs

vars == <<settings, inst, last, steps, chain, callerDict, snap, rendered>>

\* ------------------------------------------------------------------ bounds
MaxSteps == 3

\* .settings.DECIMAL_PLACES (CURRENCY_DECIMAL_PLACES, 2 unless configured)
DECIMAL_PLACES == 2

Currencies == {"USD", "EUR"}

\* ------------------------------------------------------------- rationals
Max(S) == CHOOSE x \in S : \A y \in S : y <= x

AbsInt(i) == IF i < 0 THEN -i ELSE i

RECURSIVE GCD(_, _)
GCD(a, b) == IF b = 0 THEN a ELSE GCD(b, a % b)

\* Decimal values: n/d in lowest terms, d > 0
Q(n, d) ==
    LET g == GCD(AbsInt(n), d)
    IN  [n |-> n \div g, d |-> d \div g]

Zero == Q(0, 1)
QInt(i) == Q(i, 1)
QAdd(a, b) == Q(a.n * b.d + b.n * a.d, a.d * b.d)
QNeg(a) == [n |-> -a.n, d |-> a.d]
QAbs(a) == [n |-> AbsInt(a.n), d |-> a.d]
QMul(a, b) == Q(a.n * b.n, a.d * b.d)
\* a / b for b # 0
QDiv(a, b) == IF b.n < 0 THEN Q(-(a.n * b.d), a.d * (-b.n)) ELSE Q(a.n * b.d, a.d * b.n)

RECURSIVE Pow10(_)
Pow10(k) == IF k = 0 THEN 1 ELSE 10 * Pow10(k - 1)

\* round-half-even of n/d (d > 0) to an integer
HalfEven(n, d) ==
    LET f == n \div d
        r == n - f * d
    IN  IF 2 * r < d THEN f
        ELSE IF 2 * r > d THEN f + 1
        ELSE IF f % 2 = 0 THEN f ELSE f + 1

\* Decimal rounding to nd >= 0 fractional digits (ROUND_HALF_EVEN, the rounding of
\* both the built-in round() on a Decimal and the default context's quantize)
QRound(a, nd) == Q(HalfEven(a.n * Pow10(nd), a.d), Pow10(nd))

\* ---------------------------------------------------------------- values
\* Every Python value the operators see or return, in one record shape:
\*   kind "money"      cls "Money" (this adapter) or "DefaultMoney" (moneyed.Money)
\*   kind "num"        an int / Decimal operand (amount holds its value)
\*   kind "combinable" a django Combinable (an F() expression)
\*   kind "expr"       what a Combinable's reflected operator returned: tag is the
\*                     operator, amount the argument it was invoked with
\*   kind "decimal"    a plain Decimal result
\*   kind "error"      a raised exception, tag its type
\*   kind "none"       no value
Val(kind, cls, amount, currency, dp, fo, tag) ==
    [kind |-> kind, cls |-> cls, amount |-> amount, currency |-> currency,
     decimal_places |-> dp, format_options |-> fo, tag |-> tag]

Nothing == Val("none", "", Zero, "", {}, "None", "")
Raised(tag) == Val("error", "", Zero, "", {}, "None", tag)
Num(q) == Val("num", "int", q, "", {}, "None", "")
Dec(q) == Val("decimal", "Decimal", q, "", {}, "None", "")
Expr(tag, arg) == Val("expr", "CombinedExpression", arg, "", {}, "None", tag)
Combinable == Val("combinable", "F", Zero, "", {}, "None", "")

\* What an operator call did: the value returned (or the exception raised), the
\* collaborators it invoked in order, the source handed to the last
\* _copy_attributes, the operand as maybe_convert returned it, and whether the
\* returned object was created by the call (it is not when the base returns self).
Out(ret, calls, src, conv, fresh) ==
    [ret |-> ret, calls |-> calls, src |-> src, conv |-> conv, fresh |-> fresh]

Raise(err, calls) == Out(err, calls, Nothing, Nothing, FALSE)

NoKwargs == [k \in {} |-> {}]

\* Money.__init__(amount, currency, format_options=None, **kwargs); format_options
\* is "None" or "dict" (the caller's dict object), kwargs may hold decimal_places
Money__init__(amount, currency, format_options, kwargs) ==
    Val("money", "Money", amount, currency,
        IF "decimal_places" \in DOMAIN kwargs THEN kwargs["decimal_places"] ELSE {DECIMAL_PLACES},
        IF format_options # "None" THEN "proxy" ELSE "None",
        "")

\* moneyed.Money(amount, currency): no decimal_places / format_options attributes
DefaultMoney__init__(amount, currency) ==
    Val("money", "DefaultMoney", amount, currency, {}, "None", "")

\* self.__class__(amount=..., currency=...), as the base operators build results
NewLike(self, amount, currency) ==
    IF self.cls = "Money"
    THEN Money__init__(amount, currency, "None", NoKwargs)
    ELSE DefaultMoney__init__(amount, currency)

\* getattr(candidate, "decimal_places", None)
GetDecimalPlaces(candidate) ==
    IF candidate.kind = "money" /\ candidate.cls = "Money" THEN candidate.decimal_places ELSE {}

isinstance_Combinable(other) == other.kind = "combinable"

isinstance_Money(other) == other.kind = "money"

\* ------------------------------------------------------ _copy_attributes
_copy_attributes_with_format(self, source, target) ==
    LET selection == GetDecimalPlaces(self) \cup GetDecimalPlaces(source)
        copied == [target EXCEPT !.format_options = self.format_options]
    IN  IF selection # {} THEN [copied EXCEPT !.decimal_places = {Max(selection)}] ELSE copied

_copy_attributes_source_only(self, source, target) ==
    LET selection == GetDecimalPlaces(source)
    IN  IF selection # {} THEN [target EXCEPT !.decimal_places = {Max(selection)}] ELSE target

_copy_attributes(self, source, target) ==
    LET selection == GetDecimalPlaces(self) \cup GetDecimalPlaces(source)
    IN  IF selection # {} THEN [target EXCEPT !.decimal_places = {Max(selection)}] ELSE target

\* ------------------------------------------------- the exchange collaborator
\* The rate table of djmoney.contrib.exchange: 1 EUR = 2 USD
Rate(from, to) == IF from = "EUR" /\ to = "USD" THEN Q(2, 1) ELSE Q(1, 2)

convert_money(value, currency, st) ==
    IF <<value.currency, currency>> \notin st.rates
    THEN Raise(Raised("MissingRate"), <<"convert_money">>)
    ELSE Out(NewLike(value, QMul(value.amount, Rate(value.currency, currency)), currency),
             <<"convert_money">>, Nothing, Nothing, TRUE)

maybe_convert_always(value, currency, st) ==
    IF value.kind # "money"
    THEN Raise(Raised("AttributeError"), <<>>)
    ELSE IF value.currency # currency
    THEN convert_money(value, currency, st)
    ELSE Out(value, <<>>, Nothing, Nothing, FALSE)

maybe_convert(value, currency, st) ==
    IF ~st.AUTO_CONVERT_MONEY
    THEN Out(value, <<>>, Nothing, Nothing, FALSE)
    ELSE IF value.kind # "money"
    THEN Raise(Raised("AttributeError"), <<>>)     \* value.currency on an int
    ELSE IF value.currency # currency
    THEN convert_money(value, currency, st)
    ELSE Out(value, <<>>, Nothing, Nothing, FALSE)

\* ------------------------------------------------ the base type (moneyed.Money)
DefaultMoney__add__(self, other) ==
    IF other.kind = "num" /\ other.amount = Zero
    THEN Out(self, <<"DefaultMoney.__add__">>, Nothing, Nothing, FALSE)
    ELSE IF ~isinstance_Money(other)
    THEN Raise(Raised("TypeError"), <<"DefaultMoney.__add__">>)
    ELSE IF self.currency = other.currency
    THEN Out(NewLike(self, QAdd(self.amount, other.amount), self.currency),
             <<"DefaultMoney.__add__">>, Nothing, Nothing, TRUE)
    ELSE Raise(Raised("TypeError"), <<"DefaultMoney.__add__">>)

DefaultMoney__pos__(self) ==
    Out(NewLike(self, self.amount, self.currency), <<"DefaultMoney.__pos__">>, Nothing, Nothing, TRUE)

DefaultMoney__neg__(self) ==
    Out(NewLike(self, QNeg(self.amount), self.currency), <<"DefaultMoney.__neg__">>, Nothing, Nothing, TRUE)

DefaultMoney__abs__(self) ==
    Out(NewLike(self, QAbs(self.amount), self.currency), <<"DefaultMoney.__abs__">>, Nothing, Nothing, TRUE)

DefaultMoney__mul__(self, other) ==
    IF isinstance_Money(other)
    THEN Raise(Raised("TypeError"), <<"DefaultMoney.__mul__">>)
    ELSE Out(NewLike(self, QMul(self.amount, other.amount), self.currency),
             <<"DefaultMoney.__mul__">>, Nothing, Nothing, TRUE)

DefaultMoney__truediv__(self, other) ==
    IF isinstance_Money(other)
    THEN IF self.currency # other.currency
         THEN Raise(Raised("TypeError"), <<"DefaultMoney.__truediv__">>)
         ELSE IF other.amount = Zero
         THEN Raise(Raised("DecimalException"), <<"DefaultMoney.__truediv__">>)
         ELSE Out(Dec(QDiv(self.amount, other.amount)), <<"DefaultMoney.__truediv__">>,
                  Nothing, Nothing, TRUE)
    ELSE IF other.amount = Zero
    THEN Raise(Raised("DecimalException"), <<"DefaultMoney.__truediv__">>)
    ELSE Out(NewLike(self, QDiv(self.amount, other.amount), self.currency),
             <<"DefaultMoney.__truediv__">>, Nothing, Nothing, TRUE)

DefaultMoney__rtruediv__(self, other) ==
    Raise(Raised("TypeError"), <<"DefaultMoney.__rtruediv__">>)

DefaultMoney__rmod__(self, other) ==
    IF isinstance_Money(other)
    THEN Raise(Raised("TypeError"), <<"DefaultMoney.__rmod__">>)
    ELSE Out(NewLike(self, QDiv(QMul(other.amount, self.amount), QInt(100)), self.currency),
             <<"DefaultMoney.__rmod__">>, Nothing, Nothing, TRUE)

\* ndigits is {} (None) or {k}
DefaultMoney_round(self, ndigits) ==
    LET nd == IF ndigits = {} THEN 0 ELSE Max(ndigits)
    IN  Out(NewLike(self, QRound(self.amount, nd), self.currency),
            <<"DefaultMoney.round">>, Nothing, Nothing, TRUE)

\* round(self.amount, n): the built-in round protocol on the Decimal amount
builtin_round(amount, n) == QRound(amount, IF n = {} THEN 0 ELSE Max(n))

\* ------------------------------------------------------------ the adapter
\* The tail every operator shares: unless the base operator raised, run
\* self._copy_attributes(source, result) and return the result
Finish(self, o, source, conv) ==
    IF o.ret.kind = "error"
    THEN Raise(o.ret, o.calls)
    ELSE Out(_copy_attributes(self, source, o.ret), o.calls \o <<"_copy_attributes">>,
             source, conv, o.fresh)

Prefix(calls, o) == [o EXCEPT !.calls = calls \o o.calls]

Money__add___convert_first(self, other, st) ==
    LET c == maybe_convert(other, self.currency, st)
    IN  IF c.ret.kind = "error"
        THEN Raise(c.ret, c.calls)
        ELSE IF isinstance_Combinable(other)
        THEN Out(Expr("__radd__", self.amount), <<"Combinable.__radd__">>, Nothing, Nothing, TRUE)
        ELSE Prefix(c.calls, Finish(self, DefaultMoney__add__(self, c.ret), c.ret, c.ret))

Money__add__(self, other, st) ==
    IF isinstance_Combinable(other)
    THEN Out(Expr("__radd__", self.amount), <<"Combinable.__radd__">>, Nothing, Nothing, TRUE)
    ELSE LET c == maybe_convert(other, self.currency, st)
         IN  IF c.ret.kind = "error"
             THEN Raise(c.ret, c.calls)
             ELSE Prefix(c.calls, Finish(self, DefaultMoney__add__(self, c.ret), c.ret, c.ret))

Money__radd__(self, other, st) == Money__add__(self, other, st)

Money__pos__(self) == Finish(self, DefaultMoney__pos__(self), self, Nothing)

Money__neg__(self) == Finish(self, DefaultMoney__neg__(self), self, Nothing)

Money__abs__(self) == Finish(self, DefaultMoney__abs__(self), self, Nothing)

\* -other, as moneyed's __sub__ evaluates it: the operand's own negation
Negate(other) ==
    IF other.kind = "num"
    THEN Out(Num(QNeg(other.amount)), <<>>, Nothing, Nothing, TRUE)
    ELSE IF other.cls = "Money"
    THEN Money__neg__(other)
    ELSE DefaultMoney__neg__(other)

\* moneyed.Money.__sub__: return self.__add__(-other); self is an adapter
\* instance, so self.__add__ is the adapter's override
DefaultMoney__sub__(self, other, st) ==
    LET neg == Negate(other)
        sum == Money__add__(self, neg.ret, st)
    IN  Prefix(<<"DefaultMoney.__sub__">> \o neg.calls, sum)

Money__sub__(self, other, st) ==
    IF isinstance_Combinable(other)
    THEN Out(Expr("__rsub__", self.amount), <<"Combinable.__rsub__">>, Nothing, Nothing, TRUE)
    ELSE LET c == maybe_convert(other, self.currency, st)
         IN  IF c.ret.kind = "error"
             THEN Raise(c.ret, c.calls)
             ELSE Prefix(c.calls, Finish(self, DefaultMoney__sub__(self, c.ret, st), c.ret, c.ret))

Money__mul__(self, other) ==
    IF isinstance_Combinable(other)
    THEN Out(Expr("__rmul__", self.amount), <<"Combinable.__rmul__">>, Nothing, Nothing, TRUE)
    ELSE Finish(self, DefaultMoney__mul__(self, other), other, Nothing)

Money__rmul__(self, other) == Money__mul__(self, other)

Money__truediv___always_copy(self, other) ==
    IF isinstance_Combinable(other)
    THEN Out(Expr("__rtruediv__", self.amount), <<"Combinable.__rtruediv__">>, Nothing, Nothing, TRUE)
    ELSE Finish(self, DefaultMoney__truediv__(self, other), other, Nothing)

Money__truediv__(self, other) ==
    IF isinstance_Combinable(other)
    THEN Out(Expr("__rtruediv__", self.amount), <<"Combinable.__rtruediv__">>, Nothing, Nothing, TRUE)
    ELSE LET result == DefaultMoney__truediv__(self, other)
         IN  IF result.ret.kind = "money" /\ result.ret.cls = self.cls
             THEN Finish(self, result, other, Nothing)
             ELSE result

Money__rtruediv___inherited(self, other) == DefaultMoney__rtruediv__(self, other)

Money__rtruediv__(self, other) == Raise(Raised("TypeError"), <<>>)

Money__round___no_copy(self, n) ==
    Out(Money__init__(builtin_round(self.amount, n), self.currency, "None", NoKwargs),
        <<"round">>, Nothing, Nothing, TRUE)

Money__round__(self, n) ==
    LET amount == builtin_round(self.amount, n)
        new == Money__init__(amount, self.currency, "None", NoKwargs)
    IN  Out(_copy_attributes(self, self, new), <<"round", "_copy_attributes">>, self, Nothing, TRUE)

Money_round(self, ndigits) == Finish(self, DefaultMoney_round(self, ndigits), self, Nothing)

Money__rmod__(self, other) == Finish(self, DefaultMoney__rmod__(self, other), self, Nothing)

\* -------------------------------------------------------------- rendering
Languages == {"en", "de-at"}

\* django.utils.translation.to_locale: "de-at" -> "de_AT", "en" -> "en"
to_locale(language) ==
    CASE language = "de-at" -> "de_AT"
      [] language = "en-us" -> "en_US"
      [] OTHER -> language

\* translation.get_language() or settings.LANGUAGE_CODE
get_current_locale(st) ==
    to_locale(IF st.language # "None" THEN st.language ELSE st.LANGUAGE_CODE)

EmptyDict == [k \in {} |-> ""]

\* {**a, **b}
DictMerge(a, b) ==
    [k \in DOMAIN a \cup DOMAIN b |-> IF k \in DOMAIN b THEN b[k] ELSE a[k]]

\* self.format_options read through the MappingProxyType: the proxy holds a
\* reference to the caller's dict, so a read sees the dict as it is now
ReadFormatOptions(self, dict) ==
    IF self.format_options = "None" THEN EmptyDict ELSE dict

Money__str___defaults_win(self, st, dict) ==
    LET format_options == DictMerge(ReadFormatOptions(self, dict), st.MONEY_FORMAT)
        locale == get_current_locale(st)
    IN  IF locale # ""
        THEN DictMerge(format_options, [k \in {"locale"} |-> locale])
        ELSE format_options

\* Money.__str__: the keyword arguments handed to moneyed.l10n.format_money
Money__str__(self, st, dict) ==
    LET format_options == DictMerge(st.MONEY_FORMAT, ReadFormatOptions(self, dict))
        locale == get_current_locale(st)
    IN  IF locale # ""
        THEN DictMerge(format_options, [k \in {"locale"} |-> locale])
        ELSE format_options

\* ------------------------------------------------------ inputs of the model
Amounts == {QInt(2), QInt(5)}

Kwargs(dp) == [k \in {"decimal_places"} |-> dp]

\* decimal_places keyword: absent, None, or an integer
KwargsChoices == {NoKwargs, Kwargs({}), Kwargs({0}), Kwargs({3})}

\* Money operands: explicit decimal_places (None, 1, 3) or the default, the latter
\* built with format_options
MoneyOperands ==
    {Money__init__(QInt(2), c, "None", kw) : c \in Currencies, kw \in {Kwargs({}), Kwargs({1}), Kwargs({3})}}
    \cup {Money__init__(QInt(2), c, "dict", NoKwargs) : c \in Currencies}

BaseOperands == {DefaultMoney__init__(QInt(2), c) : c \in Currencies}

Numbers == {Num(QInt(0)), Num(QInt(2)), Num(QInt(-1))}

\* Money | DefaultMoney | Combinable | Literal[0]
AddOperands == MoneyOperands \cup BaseOperands \cup {Num(Zero), Combinable}

\* Money | DefaultMoney | Decimal | float | int | Combinable
MulOperands ==
    {Num(QInt(2)), Num(QInt(-1)), Combinable, Money__init__(QInt(2), "USD", "None", Kwargs({3}))}

DivOperands ==
    {Num(QInt(0)), Num(QInt(2)), Combinable, DefaultMoney__init__(QInt(2), "USD"),
          Money__init__(QInt(2), "USD", "None", Kwargs({3})),
          Money__init__(QInt(2), "EUR", "dict", NoKwargs),
          Money__init__(QInt(0), "USD", "None", NoKwargs)}

\* left operands of x / m
RDivOperands ==
    {Num(QInt(0)), Num(QInt(2)), Combinable, DefaultMoney__init__(QInt(2), "USD"),
     Money__init__(QInt(2), "USD", "None", Kwargs({3}))}

Digits == {{}, {0}, {1}}

AllRates == {<<"EUR", "USD">>, <<"USD", "EUR">>}

DefaultFormat == [k \in {"symbol", "grouping"} |-> "True"]

Settings(auto, rates, language, fmt) ==
    [AUTO_CONVERT_MONEY |-> auto, rates |-> rates, language |-> language,
     LANGUAGE_CODE |-> "en-us", MONEY_FORMAT |-> fmt]

NotRendered == [called |-> FALSE, kwargs |-> EmptyDict, own |-> EmptyDict, st |-> Settings(FALSE, {}, "None", EmptyDict)]

NoCall == [op |-> "", self |-> Nothing, other |-> Nothing, n |-> {},
           out |-> Out(Nothing, <<>>, Nothing, Nothing, FALSE)]

\* ------------------------------------------------------------------- Init
Init ==
    /\ \E auto \in BOOLEAN, rates \in {AllRates, {}} :
          /\ (~auto => rates = AllRates)
          /\ settings = Settings(auto, rates, "None", DefaultFormat)
    /\ callerDict = [k \in {"symbol"} |-> "False"]
    /\ snap = callerDict
    /\ \E a \in Amounts, c \in Currencies, fo \in {"None", "dict"}, kw \in KwargsChoices :
          inst = Money__init__(a, c, fo, kw)
    /\ last = NoCall
    /\ steps = 0
    /\ chain = [ok |-> inst.decimal_places # {}, dps |-> inst.decimal_places]
    /\ rendered = NotRendered

\* ---------------------------------------------------------------- actions
\* the history of the running chain of +/- after `op` returned `out`
ChainAfter(op, other, out) ==
    IF out.ret.kind # "money"
    THEN chain
    ELSE IF op \in {"__add__", "__radd__", "__sub__"}
    THEN IF other.kind = "num"
         THEN chain
         ELSE IF other.cls = "Money" /\ other.currency = inst.currency
         THEN [ok |-> chain.ok /\ other.decimal_places # {},
               dps |-> chain.dps \cup other.decimal_places]
         ELSE [ok |-> FALSE, dps |-> chain.dps]
    ELSE [ok |-> out.ret.decimal_places # {}, dps |-> out.ret.decimal_places]

\* An operator call on inst; the caller goes on with the result when it is a
\* Money (a = a + b), and keeps inst otherwise.
Call(op, other, n, out) ==
    /\ steps < MaxSteps
    /\ steps' = steps + 1
    /\ last' = [op |-> op, self |-> inst, other |-> other, n |-> n, out |-> out]
    /\ inst' = IF out.ret.kind = "money" THEN out.ret ELSE inst
    /\ chain' = ChainAfter(op, other, out)
    /\ UNCHANGED <<settings, callerDict, snap, rendered>>

Add == \E other \in AddOperands : Call("__add__", other, {}, Money__add__(inst, other, settings))

RAdd == Call("__radd__", Num(Zero), {}, Money__radd__(inst, Num(Zero), settings))

Sub == \E other \in AddOperands : Call("__sub__", other, {}, Money__sub__(inst, other, settings))

Mul == \E other \in MulOperands : Call("__mul__", other, {}, Money__mul__(inst, other))

RMul == \E other \in {Num(QInt(2))} : Call("__rmul__", other, {}, Money__rmul__(inst, other))

TrueDiv == \E other \in DivOperands : Call("__truediv__", other, {}, Money__truediv__(inst, other))

RTrueDiv == \E other \in RDivOperands : Call("__rtruediv__", other, {}, Money__rtruediv__(inst, other))

Round__ == \E n \in Digits : Call("__round__", Nothing, n, Money__round__(inst, n))

Round == \E n \in Digits \ {{}} : Call("round", Nothing, n, Money_round(inst, n))

Pos == Call("__pos__", Nothing, {}, Money__pos__(inst))

Neg == Call("__neg__", Nothing, {}, Money__neg__(inst))

Abs == Call("__abs__", Nothing, {}, Money__abs__(inst))

RMod == \E other \in {Num(QInt(2)), DefaultMoney__init__(QInt(2), "USD")} : Call("__rmod__", other, {}, Money__rmod__(inst, other))

Next ==
    \/ Add \/ RAdd \/ Sub \/ Mul \/ RMul \/ TrueDiv \/ RTrueDiv
    \/ Round__ \/ Round \/ Pos \/ Neg \/ Abs \/ RMod

Spec == Init /\ [][Next]_vars

\* --------------------------------------------- format options and rendering
\* A second specification over the same state: the caller keeps and mutates the
\* dict it passed as format_options, the active language changes, and the
\* instance is rendered.
FormatKeys == {"symbol", "grouping"}

FormatValues == {"True", "False"}

InitialDicts ==
    {EmptyDict, [k \in {"symbol"} |-> "False"], [k \in FormatKeys |-> "False"]}

\* settings.MONEY_FORMAT
MoneyFormats ==
    {EmptyDict, DefaultFormat, [k \in {"symbol", "locale"} |-> IF k = "locale" THEN "fr" ELSE "True"]}

FormatInit ==
    /\ \E fmt \in MoneyFormats : settings = Settings(FALSE, AllRates, "None", fmt)
    /\ callerDict \in InitialDicts
    /\ snap = callerDict
    /\ \E fo \in {"None", "dict"} : inst = Money__init__(QInt(2), "USD", fo, NoKwargs)
    /\ last = NoCall
    /\ steps = 0
    /\ chain = [ok |-> TRUE, dps |-> inst.decimal_places]
    /\ rendered = NotRendered

\* str(inst)
Str ==
    /\ rendered' = [called |-> TRUE, kwargs |-> Money__str__(inst, settings, callerDict),
                    own |-> ReadFormatOptions(inst, callerDict), st |-> settings]
    /\ UNCHANGED <<settings, inst, last, steps, chain, callerDict, snap>>

\* the caller: options[k] = v on the dict it passed at construction
CallerSetItem ==
    \E k \in FormatKeys, v \in FormatValues :
        /\ callerDict' = DictMerge(callerDict, [x \in {k} |-> v])
        /\ UNCHANGED <<settings, inst, last, steps, chain, snap, rendered>>

\* the caller: del options[k]
CallerDelItem ==
    \E k \in DOMAIN callerDict :
        /\ callerDict' = [x \in DOMAIN callerDict \ {k} |-> callerDict[x]]
        /\ UNCHANGED <<settings, inst, last, steps, chain, snap, rendered>>

\* inst.format_options[k] = v: a MappingProxyType supports no item assignment
ProxySetItem ==
    /\ inst.format_options = "proxy"
    /\ \E k \in FormatKeys :
          last' = [op |-> "format_options.__setitem__", self |-> inst, other |-> Nothing, n |-> {},
                   out |-> Raise(Raised("TypeError"), <<>>)]
    /\ UNCHANGED <<settings, inst, steps, chain, callerDict, snap, rendered>>

\* translation.activate(language) / translation.deactivate_all()
Activate ==
    \E language \in Languages \cup {"None"} :
        /\ settings' = [settings EXCEPT !.language = language]
        /\ UNCHANGED <<inst, last, steps, chain, callerDict, snap, rendered>>

FormatNext == Str \/ CallerSetItem \/ CallerDelItem \/ ProxySetItem \/ Activate

FormatSpec == FormatInit /\ [][FormatNext]_vars

\* ------------------------------------------------------------------ claims
Ret == last.out.ret

Calls == {last.out.calls[i] : i \in DOMAIN last.out.calls}

Returned == last.op # "" /\ Ret.kind # "error"

Larger(a, b) == IF a >= b THEN a ELSE b

TheDP(m) == CHOOSE d \in m.decimal_places : TRUE

\* C1: for Money operands a, b of one currency with both decimal_places defined,
\* a + b and a - b return a new Money (the sum / difference, same currency) whose
\* decimal_places is max(a.decimal_places, b.decimal_places); and after a chain of
\* such additions and subtractions the result's decimal_places is the maximum over
\* every operand that took part.
C1_DecimalPlacesIsMax ==
    /\ ( /\ last.op \in {"__add__", "__sub__"}
         /\ last.other.kind = "money" /\ last.other.cls = "Money"
         /\ last.other.currency = last.self.currency
         /\ last.self.decimal_places # {} /\ last.other.decimal_places # {} )
       => /\ Ret.kind = "money" /\ Ret.cls = "Money" /\ last.out.fresh
          /\ Ret.currency = last.self.currency
          /\ Ret.amount = IF last.op = "__add__"
                          THEN QAdd(last.self.amount, last.other.amount)
                          ELSE QAdd(last.self.amount, QNeg(last.other.amount))
          /\ Ret.decimal_places = {Larger(TheDP(last.self), TheDP(last.other))}
    /\ chain.ok => \E d \in chain.dps : (\A e \in chain.dps : e <= d) /\ inst.decimal_places = {d}

C1_Witness ==
    /\ last.op = "__sub__" /\ steps >= 2
    /\ last.self.decimal_places = {1} /\ last.other.decimal_places = {1}
    /\ chain.ok /\ chain.dps = {0, 1}
    /\ inst.decimal_places = {1}

\* C2: x / m (Money.__rtruediv__) raises TypeError for every left operand and
\* under every setting, returns nothing, and never reaches the base library's
\* reverse-division hook.
C2_ReverseDivisionRaises ==
    last.op = "__rtruediv__"
    => /\ Ret = Raised("TypeError")
       /\ last.out.calls = <<>>
       /\ inst = last.self

C2_Witness ==
    /\ last.op = "__rtruediv__" /\ last.other.kind = "num" /\ last.other.amount = QInt(2)
    /\ settings.AUTO_CONVERT_MONEY
    /\ Ret.kind = "error"

Reflected(op) ==
    CASE op = "__add__" -> "__radd__"
      [] op = "__sub__" -> "__rsub__"
      [] op = "__mul__" -> "__rmul__"
      [] op = "__truediv__" -> "__rtruediv__"

\* C4: for +, -, *, / with a Combinable operand the value returned is the operand's
\* reflected operator invoked with self.amount: not a Money, with no metadata copy,
\* no conversion and no base operator invoked, whatever AUTO_CONVERT_MONEY is.
C4_CombinableDelegation ==
    (last.op \in {"__add__", "__sub__", "__mul__", "__truediv__"} /\ last.other.kind = "combinable")
    => /\ Ret.kind = "expr"
       /\ Ret.tag = Reflected(last.op)
       /\ Ret.amount = last.self.amount
       /\ Ret.decimal_places = {}
       /\ last.out.calls = <<"Combinable." \o Reflected(last.op)>>
       /\ inst = last.self

C4_Witness ==
    /\ last.op = "__add__" /\ last.other.kind = "combinable"
    /\ settings.AUTO_CONVERT_MONEY
    /\ Ret.kind = "expr" /\ Ret.tag = "__radd__" /\ Ret.amount = QInt(5)

\* C5: format_options is an immutable snapshot: whatever the caller later does to
\* the dict it passed, the instance's format_options still equal the dict's contents
\* at construction, __str__ uses those contents, and no write through the instance
\* changes them.
C5_FormatOptionsSnapshot ==
    /\ inst.format_options = "proxy" => ReadFormatOptions(inst, callerDict) = snap
    /\ (rendered.called /\ inst.format_options = "proxy") => rendered.own = snap
    /\ last.op = "format_options.__setitem__" => Ret = Raised("TypeError")

ExpectedLocale(st) ==
    CASE st.language = "de-at" -> "de_AT"
      [] st.language = "en" -> "en"
      [] st.language = "None" /\ st.LANGUAGE_CODE = "en-us" -> "en_US"

\* C6: __str__ hands format_money the merge of MONEY_FORMAT and the instance's
\* format_options (the instance's value for every key in both, the default's for
\* every key only in MONEY_FORMAT; the defaults alone when format_options is unset),
\* with the resolved locale (active language, else LANGUAGE_CODE) injected.
C6_StrMergesOptions ==
    rendered.called
    => LET kw == rendered.kwargs
           own == rendered.own
           def == rendered.st.MONEY_FORMAT
       IN  /\ DOMAIN kw = DOMAIN def \cup DOMAIN own \cup {"locale"}
           /\ \A k \in DOMAIN own \ {"locale"} : kw[k] = own[k]
           /\ \A k \in DOMAIN def \ (DOMAIN own \cup {"locale"}) : kw[k] = def[k]
           /\ kw["locale"] = ExpectedLocale(rendered.st)
           /\ (def = [k \in {"symbol", "grouping"} |-> "True"] /\ own = [k \in {"symbol"} |-> "False"])
                 => (kw["symbol"] = "False" /\ kw["grouping"] = "True")

C6_Witness ==
    /\ rendered.called
    /\ rendered.st.MONEY_FORMAT = [k \in {"symbol", "grouping"} |-> "True"]
    /\ rendered.own = [k \in {"symbol"} |-> "False"]
    /\ rendered.st.language = "de-at"
    /\ rendered.kwargs["symbol"] = "False" /\ rendered.kwargs["grouping"] = "True"
    /\ rendered.kwargs["locale"] = "de_AT"

\* C7: for a Money a with decimal_places d, both a.round(n) and round(a, n) return
\* a new Money with the amount rounded to n digits, a's currency and
\* decimal_places d.
C7_RoundKeepsDecimalPlaces ==
    (last.op \in {"round", "__round__"} /\ last.self.decimal_places # {})
    => LET unit == Pow10(IF last.n = {} THEN 0 ELSE TheDP([decimal_places |-> last.n]))
           scaled == QMul(Ret.amount, QInt(unit))
           diff == QAbs(QAdd(Ret.amount, QNeg(last.self.amount)))
       IN  /\ Ret.kind = "money" /\ Ret.cls = "Money" /\ last.out.fresh
           /\ Ret.currency = last.self.currency
           /\ Ret.decimal_places = last.self.decimal_places
           /\ scaled.d = 1
           /\ 2 * diff.n * unit <= diff.d

C7_Witness ==
    /\ last.op = "__round__" /\ last.n = {0}
    /\ last.self.decimal_places = {3} /\ last.self.amount = Q(5, 2)
    /\ Ret.kind = "money" /\ Ret.amount = QInt(2) /\ Ret.decimal_places = {3}

ConcreteWithCurrency == last.other.kind = "money"

\* C8 (as stated): every binary operator (+, -, *, /) with a concrete operand whose
\* currency differs converts the operand through the conversion service when
\* AUTO_CONVERT_MONEY is enabled, before the base operator runs (stated here for
\* the runs in which a rate is available, so that the conversion could succeed).
C8_EveryOperatorConverts ==
    ( /\ last.op \in {"__add__", "__sub__", "__mul__", "__truediv__"}
      /\ ConcreteWithCurrency
      /\ settings.AUTO_CONVERT_MONEY
      /\ last.other.currency # last.self.currency
      /\ <<last.other.currency, last.self.currency>> \in settings.rates )
    => /\ last.out.calls # <<>>
       /\ last.out.calls[1] = "convert_money"

\* C8 (amended): + and - (and reflected +) invoke the conversion service exactly
\* when AUTO_CONVERT_MONEY is enabled and the operand carries a currency that
\* differs from self's, before any base operator runs, and the base operator and
\* _copy_attributes then use the converted operand; * and / never invoke it.
C8_AddSubConvert ==
    /\ (last.op \in {"__add__", "__radd__", "__sub__"} /\ last.other.kind # "combinable")
       => /\ ("convert_money" \in Calls)
             <=> ( /\ settings.AUTO_CONVERT_MONEY
                   /\ ConcreteWithCurrency
                   /\ last.other.currency # last.self.currency )
          /\ "convert_money" \in Calls
             => /\ last.out.calls[1] = "convert_money"
                /\ \A i \in DOMAIN last.out.calls : i > 1 => last.out.calls[i] # "convert_money"
                /\ Returned
                   => /\ last.out.conv.currency = last.self.currency
                      /\ last.out.conv.amount # last.other.amount
                      /\ last.out.src = last.out.conv
                      /\ Ret.amount = IF last.op = "__sub__"
                                      THEN QAdd(last.self.amount, QNeg(last.out.conv.amount))
                                      ELSE QAdd(last.self.amount, last.out.conv.amount)
    /\ last.op \in {"__mul__", "__rmul__", "__truediv__"} => "convert_money" \notin Calls

C8_Witness ==
    /\ last.op = "__sub__" /\ ConcreteWithCurrency
    /\ settings.AUTO_CONVERT_MONEY
    /\ last.self.currency = "USD" /\ last.other.currency = "EUR"
    /\ "convert_money" \in Calls
    /\ Ret.kind = "money" /\ Ret.currency = "USD"

BaseOperators ==
    {"DefaultMoney.__add__", "DefaultMoney.__sub__", "DefaultMoney.__mul__",
     "DefaultMoney.__truediv__", "DefaultMoney.__rmod__", "DefaultMoney.round",
     "DefaultMoney.__pos__", "DefaultMoney.__neg__", "DefaultMoney.__abs__"}

\* C9: apart from reverse division, an operator of the adapter fails only when the
\* base operator or the conversion service fails on the same inputs: every
\* exception is one that a base operator or convert_money raised.
C9_NoNewFailureModes ==
    ( /\ last.op \notin {"", "__rtruediv__", "format_options.__setitem__"}
      /\ Ret.kind = "error" )
    => /\ last.out.calls # <<>>
       /\ last.out.calls[Len(last.out.calls)] \in BaseOperators \cup {"convert_money"}

SourceOperand ==
    IF last.op \in {"__add__", "__radd__", "__sub__"} THEN last.out.conv
    ELSE IF last.op \in {"__mul__", "__rmul__", "__truediv__"} THEN last.other
    ELSE last.self

YieldsMoney ==
    {"__add__", "__radd__", "__sub__", "__mul__", "__rmul__", "__truediv__",
     "__pos__", "__neg__", "__abs__", "__rmod__", "round", "__round__"}

\* C10: every operator that yields a new Money returns it with format_options
\* unset, whatever format_options the operands hold, and with decimal_places the
\* maximum of the defined decimal_places of self and the source operand, or the
\* value it was constructed with (the default) when neither is defined.
C10_OnlyDecimalPlacesCarried ==
    (last.op \in YieldsMoney /\ Ret.kind = "money" /\ last.out.fresh)
    => LET defined == {m \in {last.self, SourceOperand} :
                          m.kind = "money" /\ m.cls = "Money" /\ m.decimal_places # {}}
       IN  /\ Ret.format_options = "None"
           /\ defined # {}
              => \E m \in defined : /\ \A o \in defined : TheDP(o) <= TheDP(m)
                                    /\ Ret.decimal_places = m.decimal_places
           /\ defined = {} => Ret.decimal_places = {DECIMAL_PLACES}

C10_Witness ==
    /\ last.op = "__sub__" /\ Ret.kind = "money" /\ last.out.fresh
    /\ last.self.format_options = "proxy" /\ last.other.format_options = "proxy"
    /\ last.self.decimal_places = {3}
    /\ Ret.format_options = "None" /\ Ret.decimal_places = {3}

====
